---- MODULE Spec2Model ----
(***************************************************************************)
(* A model of the Parseable trace exporter (src/src/lib.rs):               *)
(*   - into_trace_messages, the flattener of a batch of spans;             *)
(*   - ParseableExporterBuilder and build_exporter (endpoint and headers); *)
(*   - ParseableExporter::export and the send_request future.              *)
(* Three specifications share the variables: SpecFlatten (the flattener on *)
(* bounded batches), SpecBuild (the builder) and Spec (export calls on a   *)
(* built exporter).                                                        *)
(***************************************************************************)
EXTENDS Integers, Sequences, FiniteSets, TLC

VARIABLES
    spans,           \* SpecFlatten: the batch handed to into_trace_messages
    trace_messages,  \* SpecFlatten: its result
    flattened,       \* SpecFlatten: whether into_trace_messages has run
    builder,         \* SpecBuild: the ParseableExporterBuilder's fields
    built,           \* SpecBuild: the result of build_exporter, or NotBuilt
    exporter,        \* Spec: the ParseableExporter (client, request_url, request_headers)
    constructed,     \* Spec: the exporter as ParseableExporter::new returned it
    calls,           \* Spec: the futures returned by export, one per call
    network          \* Spec: the requests handed to client.execute and their outcomes, in order

vars == <<spans, trace_messages, flattened, builder, built, exporter, constructed, calls, network>>

\* ---------------------------------------------------------------- bounds

\* The longest batch handed to into_trace_messages.
MaxSpans == 2

\* The most events a span carries.
MaxEvents == 2

\* ---------------------------------------------------------------- helpers

None == [some |-> FALSE]

Some(v) == [some |-> TRUE, v |-> v]

RECURSIVE Concat(_)
\* The concatenation of a sequence of sequences.
Concat(ss) == IF ss = <<>> THEN <<>> ELSE Head(ss) \o Concat(Tail(ss))

RECURSIVE SeqsUpTo(_, _)
\* The sequences over S of length at most n.
SeqsUpTo(S, n) ==
    IF n = 0 THEN {<<>>}
    ELSE LET shorter == SeqsUpTo(S, n - 1)
         IN  shorter \cup {Append(s, x) : s \in {t \in shorter : Len(t) = n - 1}, x \in S}

\* ---------------------------------------------------------------- timestamps

Pad2(n) == IF n < 10 THEN "0" \o ToString(n) ELSE ToString(n)

Pad3(n) == IF n < 10 THEN "00" \o ToString(n) ELSE IF n < 100 THEN "0" \o ToString(n) ELSE ToString(n)

Pad4(n) == IF n < 1000 THEN "0" \o Pad3(n) ELSE ToString(n)

\* The proleptic Gregorian date of a day count since 1970-01-01, as chrono's
\* DateTime<Utc>::from(SystemTime) computes it.
CivilFromDays(days) ==
    LET z   == days + 719468
        era == z \div 146097
        doe == z - era * 146097
        yoe == (doe - doe \div 1460 + doe \div 36524 - doe \div 146096) \div 365
        doy == doe - (365 * yoe + yoe \div 4 - yoe \div 100)
        mp  == (5 * doy + 2) \div 153
        d   == doy - (153 * mp + 2) \div 5 + 1
        m   == IF mp < 10 THEN mp + 3 ELSE mp - 9
        y   == yoe + era * 400 + (IF m <= 2 THEN 1 ELSE 0)
    IN  [year |-> y, month |-> m, day |-> d]

\* A SystemTime is [secs, nanos] since the epoch.  RFC 3339, UTC, milliseconds
\* (the nanoseconds truncated), "Z" suffix.
to_timestamp_string(timestamp) ==
    LET date == CivilFromDays(timestamp.secs \div 86400)
        sod  == timestamp.secs % 86400
    IN  Pad4(date.year) \o "-" \o Pad2(date.month) \o "-" \o Pad2(date.day) \o "T"
        \o Pad2(sod \div 3600) \o ":" \o Pad2((sod % 3600) \div 60) \o ":" \o Pad2(sod % 60)
        \o "." \o Pad3(timestamp.nanos \div 1000000) \o "Z"

\* ---------------------------------------------------------------- ids, keys and values

HexDigits == <<"0", "1", "2", "3", "4", "5", "6", "7", "8", "9", "a", "b", "c", "d", "e", "f">>

RECURSIVE LowerHex(_, _)
\* {:0<width>x}: lower-case hexadecimal, zero-padded to width digits.
LowerHex(n, width) ==
    IF width = 0 THEN ""
    ELSE LowerHex(n \div 16, width - 1) \o HexDigits[(n % 16) + 1]

\* Display for TraceId (u128) and SpanId (u64).
TraceIdToString(id) == LowerHex(id, 32)

SpanIdToString(id) == LowerHex(id, 16)

\* Display for opentelemetry::Value: a string as it is, an integer in decimal,
\* a boolean as true or false.
ValueToString(value) ==
    CASE value.t = "String" -> value.v
      [] value.t = "I64"    -> ToString(value.v)
      [] value.t = "Bool"   -> IF value.v THEN "true" ELSE "false"

\* format!("{}={}", key, value) over the attributes, in iteration order.
extract_attributes(attributes) ==
    [i \in 1..Len(attributes) |-> attributes[i].key \o "=" \o ValueToString(attributes[i].value)]

\* ---------------------------------------------------------------- the flattener

\* The TraceMessage built from the span's own fields (event fields None).
SpanTraceMessage(span) ==
    [resource_attributes |-> extract_attributes(span.resource),
     span_name           |-> span.name,
     attributes          |-> extract_attributes(span.attributes),
     start_time          |-> to_timestamp_string(span.start_time),
     end_time            |-> to_timestamp_string(span.end_time),
     parent_span_id      |-> SpanIdToString(span.parent_span_id),
     span_id             |-> SpanIdToString(span.span_id),
     trace_id            |-> TraceIdToString(span.trace_id),
     event_message       |-> None,
     event_timestamp     |-> None]

\* The closure mapped over span.events: a clone of the span's message, extended
\* with the event's attributes, message and timestamp.
EventTraceMessage(trace_message, event) ==
    [trace_message EXCEPT
        !.attributes      = @ \o extract_attributes(event.attributes),
        !.event_message   = Some(event.name),
        !.event_timestamp = Some(to_timestamp_string(event.timestamp))]

RECURSIVE LeakyEventMessages(_, _)
\* A flattener that extends one shared message instead of a clone per event.
LeakyEventMessages(trace_message, events) ==
    IF events = <<>> THEN <<>>
    ELSE LET next == EventTraceMessage(trace_message, Head(events))
         IN  <<next>> \o LeakyEventMessages(next, Tail(events))

SpanMessagesShared(span) ==
    IF span.events = <<>> THEN <<SpanTraceMessage(span)>>
    ELSE LeakyEventMessages(SpanTraceMessage(span), span.events)

\* A flattener that emits a record only for events.
SpanMessagesEventsOnly(span) ==
    [i \in 1..Len(span.events) |-> EventTraceMessage(SpanTraceMessage(span), span.events[i])]

\* The body of the loop over the batch: what one span pushes onto trace_messages.
SpanMessages(span) ==
    LET trace_message == SpanTraceMessage(span)
    IN  IF span.events = <<>> THEN <<trace_message>>
        ELSE [i \in 1..Len(span.events) |-> EventTraceMessage(trace_message, span.events[i])]

RECURSIVE IntoLoop(_, _, _)
IntoLoop(batch, i, acc) ==
    IF i > Len(batch) THEN acc
    ELSE IntoLoop(batch, i + 1, acc \o SpanMessages(batch[i]))

RECURSIVE InsertByStart(_, _)
InsertByStart(span, sorted) ==
    IF sorted = <<>> THEN <<span>>
    ELSE IF span.start_time.secs < Head(sorted).start_time.secs THEN <<span>> \o sorted
    ELSE <<Head(sorted)>> \o InsertByStart(span, Tail(sorted))

RECURSIVE SortByStart(_)
SortByStart(batch) ==
    IF batch = <<>> THEN <<>> ELSE InsertByStart(Head(batch), SortByStart(Tail(batch)))

\* A flattener that orders the batch by start time first.
into_trace_messages_sorted(batch) == IntoLoop(SortByStart(batch), 1, <<>>)

into_trace_messages(batch) == IntoLoop(batch, 1, <<>>)

\* ---------------------------------------------------------------- bounded inputs of the flattener

Time1 == [secs |-> 1700000000, nanos |-> 123456789]

Time2 == [secs |-> 951825599, nanos |-> 999999999]

Time3 == [secs |-> 86400, nanos |-> 0]

KV(k, t, v) == [key |-> k, value |-> [t |-> t, v |-> v]]

EventA == [name |-> "midpoint", timestamp |-> Time1, attributes |-> <<KV("e", "I64", 1)>>]

EventB == [name |-> "start", timestamp |-> Time3, attributes |-> <<KV("level", "String", "info"), KV("ok", "Bool", TRUE)>>]

Events == {EventA, EventB}

EventSeqs == SeqsUpTo(Events, MaxEvents)

SpanA(events) ==
    [trace_id |-> 171, span_id |-> 1, parent_span_id |-> 0, name |-> "fooz",
     start_time |-> Time2, end_time |-> Time1,
     resource |-> <<KV("env", "String", "prod")>>,
     attributes |-> <<KV("k", "String", "v")>>,
     events |-> events]

SpanB(events) ==
    [trace_id |-> 171, span_id |-> 2, parent_span_id |-> 1, name |-> "bar",
     start_time |-> Time3, end_time |-> Time2,
     resource |-> <<KV("env", "String", "prod")>>,
     attributes |-> <<>>,
     events |-> events]

\* SpanA with every sequence of events, SpanB with none or one.
Spans == {SpanA(es) : es \in EventSeqs} \cup {SpanB(es) : es \in {t \in EventSeqs : Len(t) <= 1}}

Batches == SeqsUpTo(Spans, MaxSpans)

\* ---------------------------------------------------------------- byte strings

\* The builder's strings, header values and URLs are sequences of bytes: validity
\* of a header value, Base64 and URL parsing are decided byte by byte.

\* "http"
StrHttp == <<104, 116, 116, 112>>

\* "https"
StrHttps == <<104, 116, 116, 112, 115>>

\* "://"
StrSchemeSep == <<58, 47, 47>>

\* ":"
StrColon == <<58>>

\* "/"
StrSlash == <<47>>

\* "/ingest"
StrIngest == <<47, 105, 110, 103, 101, 115, 116>>

\* "api/v1"
StrApiV1 == <<97, 112, 105, 47, 118, 49>>

\* "application/json"
StrApplicationJson == <<97, 112, 112, 108, 105, 99, 97, 116, 105, 111, 110, 47, 106, 115, 111, 110>>

\* "Basic "
StrBasic == <<66, 97, 115, 105, 99, 32>>

\* "admin"
StrAdmin == <<97, 100, 109, 105, 110>>

\* "my-service"
StrMyService == <<109, 121, 45, 115, 101, 114, 118, 105, 99, 101>>

\* "0.0.0.0"
StrDefaultHost == <<48, 46, 48, 46, 48, 46, 48>>

\* "8000"
StrDefaultPort == <<56, 48, 48, 48>>

\* The first index of s holding a byte of S, or 0.
FirstIn(s, S) ==
    IF \E i \in 1..Len(s) : s[i] \in S
    THEN CHOOSE i \in 1..Len(s) : s[i] \in S /\ \A j \in 1..(i - 1) : s[j] \notin S
    ELSE 0

IsDigit(b) == b >= 48 /\ b <= 57

AsciiLower(b) == IF b >= 65 /\ b <= 90 THEN b + 32 ELSE b

RECURSIVE DecimalBytes(_)
\* An unsigned integer in decimal.
DecimalBytes(n) ==
    IF n < 10 THEN <<48 + n>> ELSE DecimalBytes(n \div 10) \o <<48 + (n % 10)>>

\* ---------------------------------------------------------------- Base64 (STANDARD engine)

Base64Char(i) ==
    IF i < 26 THEN 65 + i
    ELSE IF i < 52 THEN 97 + (i - 26)
    ELSE IF i < 62 THEN 48 + (i - 52)
    ELSE IF i = 62 THEN 43
    ELSE 47

RECURSIVE Base64Encode(_)
\* base64::engine::general_purpose::STANDARD.encode: three bytes to four characters
\* of the standard alphabet, "=" padding.
Base64Encode(bytes) ==
    IF Len(bytes) = 0 THEN <<>>
    ELSE IF Len(bytes) = 1 THEN
        <<Base64Char(bytes[1] \div 4), Base64Char((bytes[1] % 4) * 16), 61, 61>>
    ELSE IF Len(bytes) = 2 THEN
        <<Base64Char(bytes[1] \div 4),
          Base64Char((bytes[1] % 4) * 16 + bytes[2] \div 16),
          Base64Char((bytes[2] % 16) * 4), 61>>
    ELSE
        <<Base64Char(bytes[1] \div 4),
          Base64Char((bytes[1] % 4) * 16 + bytes[2] \div 16),
          Base64Char((bytes[2] % 16) * 4 + bytes[3] \div 64),
          Base64Char(bytes[3] % 64)>> \o Base64Encode(SubSeq(bytes, 4, Len(bytes)))

\* ---------------------------------------------------------------- http::HeaderValue and http::HeaderMap

Ok(v) == [ok |-> TRUE, v |-> v]

Err(e) == [ok |-> FALSE, err |-> e]

\* HeaderValue::from_str: every byte is visible ASCII, a space, a tab or above 127;
\* the other control characters and DEL are refused.
HeaderValueFromStr(s) ==
    IF \A i \in 1..Len(s) : (s[i] >= 32 /\ s[i] # 127) \/ s[i] = 9
    THEN Ok(s)
    ELSE Err("InvalidHeaderValue")

\* HeaderValue::from_str without the validation: the refused bytes are dropped.
HeaderValueFromStrStripped(s) ==
    Ok(SelectSeq(s, LAMBDA c : (c >= 32 /\ c # 127) \/ c = 9))

\* A HeaderMap is the sequence of its entries, [name, values], in insertion order;
\* a name is a HeaderName, that is, already in lower case.
EmptyHeaderMap == <<>>

HeaderIndex(map, name) ==
    IF \E i \in 1..Len(map) : map[i].name = name
    THEN CHOOSE i \in 1..Len(map) : map[i].name = name
    ELSE 0

HeaderNames(map) == {map[i].name : i \in 1..Len(map)}

\* HeaderMap::get_all(name), as a sequence.
HeaderValues(map, name) ==
    IF HeaderIndex(map, name) = 0 THEN <<>> ELSE map[HeaderIndex(map, name)].values

\* HeaderMap::insert: the value replaces every value the name had.
HeaderInsert(map, name, value) ==
    IF HeaderIndex(map, name) = 0
    THEN Append(map, [name |-> name, values |-> <<value>>])
    ELSE [map EXCEPT ![HeaderIndex(map, name)].values = <<value>>]

\* HeaderMap::append: the value is added to those the name has.
HeaderAppend(map, name, value) ==
    IF HeaderIndex(map, name) = 0
    THEN Append(map, [name |-> name, values |-> <<value>>])
    ELSE [map EXCEPT ![HeaderIndex(map, name)].values = Append(@, value)]

\* HeaderMap::into_iter: (Some(name), first value), then (None, value) for the
\* name's further values.
HeaderIntoIter(map) ==
    Concat([i \in 1..Len(map) |->
        [j \in 1..Len(map[i].values) |->
            [name |-> IF j = 1 THEN Some(map[i].name) ELSE None, value |-> map[i].values[j]]]])

RECURSIVE ExtendLoop(_, _, _)
\* Extend<(Option<HeaderName>, T)> for HeaderMap: an item with a name is inserted
\* (replacing the values the name had), an item without is appended to the entry of
\* the last name seen.
ExtendLoop(map, items, key) ==
    IF items = <<>> THEN map
    ELSE LET item == Head(items)
         IN  IF item.name.some
             THEN ExtendLoop(HeaderInsert(map, item.name.v, item.value), Tail(items), item.name.v)
             ELSE ExtendLoop(HeaderAppend(map, key, item.value), Tail(items), key)

RECURSIVE AppendLoop(_, _, _)
AppendLoop(map, items, key) ==
    IF items = <<>> THEN map
    ELSE LET item == Head(items)
             name == IF item.name.some THEN item.name.v ELSE key
         IN  AppendLoop(HeaderAppend(map, name, item.value), Tail(items), name)

\* An extend that appends every item, keeping the values a name had.
HeaderExtendAdditive(map, other) == AppendLoop(map, HeaderIntoIter(other), "")

HeaderExtend(map, other) == ExtendLoop(map, HeaderIntoIter(other), "")

\* ---------------------------------------------------------------- url::Url

\* The default port of a special scheme.
DefaultPort(scheme) == IF scheme = StrHttps THEN 443 ELSE 80

\* The bytes that end the authority of a special URL: "/", "?", "#", "\".
AuthorityEnd == {47, 63, 35, 92}

\* The forbidden host code points among the bytes drawn here: the C0 controls, space,
\* "#", "/", ":", "<", ">", "?", "@", "[", "\", "]", "^", "|", "%" and DEL.
ForbiddenHostBytes == (0..32) \cup {35, 37, 47, 58, 60, 62, 63, 64, 91, 92, 93, 94, 124, 127}

RECURSIVE ParsePort(_, _)
\* The port's digits, refused as soon as the value exceeds 65535, or at a byte that
\* is no digit.
ParsePort(s, acc) ==
    IF s = <<>> THEN Ok(acc)
    ELSE IF ~IsDigit(Head(s)) THEN Err("InvalidPort")
    ELSE IF acc * 10 + (Head(s) - 48) > 65535 THEN Err("InvalidPort")
    ELSE ParsePort(Tail(s), acc * 10 + (Head(s) - 48))

RECURSIVE SplitDots(_)
\* The labels of a host, split at ".".
SplitDots(s) ==
    IF FirstIn(s, {46}) = 0 THEN <<s>>
    ELSE <<SubSeq(s, 1, FirstIn(s, {46}) - 1)>> \o SplitDots(SubSeq(s, FirstIn(s, {46}) + 1, Len(s)))

AllDigits(s) == s # <<>> /\ \A i \in 1..Len(s) : IsDigit(s[i])

\* A host whose last label is a number is an IPv4 address: here four decimal parts
\* of at most 255 each, serialised in decimal (the shorter, octal and hexadecimal
\* forms are not among the hosts drawn).
ParseIpv4(host) ==
    LET parts == SplitDots(host)
        value(p) == ParsePort(p, 0)
    IN  IF /\ Len(parts) = 4
           /\ \A i \in 1..4 : AllDigits(parts[i]) /\ value(parts[i]).ok /\ value(parts[i]).v <= 255
        THEN Ok(DecimalBytes(value(parts[1]).v) \o <<46>> \o DecimalBytes(value(parts[2]).v) \o <<46>>
                \o DecimalBytes(value(parts[3]).v) \o <<46>> \o DecimalBytes(value(parts[4]).v))
        ELSE Err("InvalidIpv4Address")

\* Host parsing of a special URL: not empty, ASCII letters lowered, no forbidden
\* code point, an IPv4 address when the last label is a number.
ParseHost(raw) ==
    LET lowered == [i \in 1..Len(raw) |-> AsciiLower(raw[i])]
        labels  == SplitDots(lowered)
    IN  IF raw = <<>> THEN Err("EmptyHost")
        ELSE IF \E i \in 1..Len(lowered) : lowered[i] \in ForbiddenHostBytes
        THEN Err("InvalidDomainCharacter")
        ELSE IF AllDigits(labels[Len(labels)]) THEN ParseIpv4(lowered)
        ELSE Ok(lowered)

\* A parse that keeps the authority as it was written.
ParseUrlVerbatim(input) ==
    LET rest      == SubSeq(input, FirstIn(input, {58}) + 3, Len(input))
        authEnd   == FirstIn(rest, AuthorityEnd)
        authority == IF authEnd = 0 THEN rest ELSE SubSeq(rest, 1, authEnd - 1)
        hostEnd   == FirstIn(authority, {58})
        hostRaw   == IF hostEnd = 0 THEN authority ELSE SubSeq(authority, 1, hostEnd - 1)
        portRaw   == IF hostEnd = 0 THEN <<>> ELSE SubSeq(authority, hostEnd + 1, Len(authority))
    IN  IF ~ParseHost(hostRaw).ok THEN Err(ParseHost(hostRaw).err)
        ELSE IF ~ParsePort(portRaw, 0).ok THEN Err(ParsePort(portRaw, 0).err)
        ELSE Ok(input)

\* str::parse::<Url> of "<scheme>://<authority><path>" with an http or https scheme
\* and no userinfo: the host is parsed, the port is parsed and dropped when it is
\* empty or the scheme's default, and the URL is its serialisation.
ParseUrl(input) ==
    LET colon     == FirstIn(input, {58})
        scheme    == SubSeq(input, 1, colon - 1)
        rest      == SubSeq(input, colon + 3, Len(input))
        authEnd   == FirstIn(rest, AuthorityEnd)
        authority == IF authEnd = 0 THEN rest ELSE SubSeq(rest, 1, authEnd - 1)
        path      == IF authEnd = 0 THEN StrSlash ELSE SubSeq(rest, authEnd, Len(rest))
        hostEnd   == FirstIn(authority, {58})
        hostRaw   == IF hostEnd = 0 THEN authority ELSE SubSeq(authority, 1, hostEnd - 1)
        portRaw   == IF hostEnd = 0 THEN <<>> ELSE SubSeq(authority, hostEnd + 1, Len(authority))
        host      == ParseHost(hostRaw)
        port      == ParsePort(portRaw, 0)
    IN  IF ~host.ok THEN Err(host.err)
        ELSE IF ~port.ok THEN Err(port.err)
        ELSE LET shown == IF portRaw = <<>> \/ port.v = DefaultPort(scheme)
                          THEN <<>> ELSE StrColon \o DecimalBytes(port.v)
             IN  Ok(scheme \o StrSchemeSep \o host.v \o shown \o path)

\* ---------------------------------------------------------------- the builder

\* ParseableApiVersion::path and ::content_type.
ApiVersionPath(api_version) == StrApiV1

ApiVersionContentType(api_version) == StrApplicationJson

\* impl Default for ParseableExporterBuilder; host and port are the environment's
\* PARSEABLE_HOST and PARSEABLE_PORT when set (None: unset).
DefaultBuilder(env_host, env_port) ==
    [tls_enabled  |-> FALSE,
     host         |-> IF env_host.some THEN env_host.v ELSE StrDefaultHost,
     port         |-> IF env_port.some THEN env_port.v ELSE StrDefaultPort,
     api_version  |-> "V1",
     username     |-> StrAdmin,
     password     |-> StrAdmin,
     service_name |-> StrMyService,
     client       |-> Some("reqwest::Client::new()"),
     metadata     |-> None,
     tags         |-> None]

\* format!("{}://{}:{}/{}/ingest", ...) and its parse.
BuildEndpoint(b) ==
    LET http_protocol == IF b.tls_enabled THEN StrHttps ELSE StrHttp
        url == http_protocol \o StrSchemeSep \o b.host \o StrColon \o b.port
               \o StrSlash \o ApiVersionPath(b.api_version) \o StrIngest
    IN  ParseUrl(url)

\* ParseableExporter::new.
NewExporter(client, request_url, request_headers) ==
    [client |-> client, request_url |-> request_url, request_headers |-> request_headers]

\* A build that drops the refused bytes of the stream name instead of failing.
build_exporter_unvalidated(b) ==
    LET endpoint == BuildEndpoint(b)
        encoded_auth == Base64Encode(b.username \o StrColon \o b.password)
        auth == HeaderValueFromStr(StrBasic \o encoded_auth)
        stream == HeaderValueFromStrStripped(b.service_name)
        h1 == HeaderInsert(EmptyHeaderMap, "authorization", auth.v)
        h2 == HeaderInsert(h1, "content-type", ApiVersionContentType(b.api_version))
        h3 == HeaderInsert(h2, "x-p-stream", stream.v)
        h4 == IF b.metadata.some THEN HeaderExtend(h3, b.metadata.v) ELSE h3
        h5 == IF b.tags.some THEN HeaderExtend(h4, b.tags.v) ELSE h4
    IN  IF ~endpoint.ok THEN Err(endpoint.err)
        ELSE IF ~b.client.some THEN Err("No HttpClient provided")
        ELSE IF ~auth.ok THEN Err(auth.err)
        ELSE Ok(NewExporter(b.client.v, endpoint.v, h5))

build_exporter(b) ==
    LET endpoint == BuildEndpoint(b)
        encoded_auth == Base64Encode(b.username \o StrColon \o b.password)
        auth == HeaderValueFromStr(StrBasic \o encoded_auth)
        stream == HeaderValueFromStr(b.service_name)
        h1 == HeaderInsert(EmptyHeaderMap, "authorization", auth.v)
        h2 == HeaderInsert(h1, "content-type", ApiVersionContentType(b.api_version))
        h3 == HeaderInsert(h2, "x-p-stream", stream.v)
        h4 == IF b.metadata.some THEN HeaderExtend(h3, b.metadata.v) ELSE h3
        h5 == IF b.tags.some THEN HeaderExtend(h4, b.tags.v) ELSE h4
    IN  IF ~endpoint.ok THEN Err(endpoint.err)
        ELSE IF ~b.client.some THEN Err("No HttpClient provided")
        ELSE IF ~auth.ok THEN Err(auth.err)
        ELSE IF ~stream.ok THEN Err(stream.err)
        ELSE Ok(NewExporter(b.client.v, endpoint.v, h5))

\* ---------------------------------------------------------------- SpecFlatten

NotBuilt == [state |-> "not built"]

Idle == <<>>

InitFlatten ==
    /\ spans \in Batches
    /\ trace_messages = <<>>
    /\ flattened = FALSE
    /\ builder = Idle
    /\ built = NotBuilt
    /\ exporter = Idle
    /\ constructed = Idle
    /\ calls = <<>>
    /\ network = <<>>

Flatten ==
    /\ ~flattened
    /\ trace_messages' = into_trace_messages(spans)
    /\ flattened' = TRUE
    /\ UNCHANGED <<spans, builder, built, exporter, constructed, calls, network>>

NextFlatten == Flatten

SpecFlatten == InitFlatten /\ [][NextFlatten]_vars

\* ---------------------------------------------------------------- bounded inputs of the builder

\* "logs.example.com"
HostLogs == <<108, 111, 103, 115, 46, 101, 120, 97, 109, 112, 108, 101, 46, 99, 111, 109>>

\* "Logs.Example.COM"
HostMixedCase == <<76, 111, 103, 115, 46, 69, 120, 97, 109, 112, 108, 101, 46, 67, 79, 77>>

\* "bad host"
HostWithSpace == <<98, 97, 100, 32, 104, 111, 115, 116>>

\* "443"
Port443 == <<52, 52, 51>>

\* "80"
Port80 == <<56, 48>>

\* "08000"
PortLeadingZero == <<48, 56, 48, 48, 48>>

\* "80a"
PortNotNumeric == <<56, 48, 97>>

\* "65536"
PortTooBig == <<54, 53, 53, 51, 54>>

\* "ad\nmin"
UserWithNewline == <<97, 100, 10, 109, 105, 110>>

\* "pa\x7fss"
PasswordWithDel == <<112, 97, 127, 115, 115>>

\* "my\nsvc"
ServiceWithNewline == <<109, 121, 10, 115, 118, 99>>

\* "my\tsvc"
ServiceWithTab == <<109, 121, 9, 115, 118, 99>>

\* "team-a"
ValueTeamA == <<116, 101, 97, 109, 45, 97>>

\* "team-b"
ValueTeamB == <<116, 101, 97, 109, 45, 98>>

\* "other"
ValueOther == <<111, 116, 104, 101, 114>>

\* "text/plain"
ValueTextPlain == <<116, 101, 120, 116, 47, 112, 108, 97, 105, 110>>

\* "Bearer t"
ValueBearer == <<66, 101, 97, 114, 101, 114, 32, 116>>

\* "prod"
ValueEnv == <<112, 114, 111, 100>>

Hosts == {StrDefaultHost, HostLogs, HostMixedCase, HostWithSpace, <<>>}

Ports == {StrDefaultPort, Port443, Port80, PortLeadingZero, PortNotNumeric, PortTooBig, <<>>}

Usernames == {StrAdmin, UserWithNewline}

Passwords == {StrAdmin, PasswordWithDel}

ServiceNames == {StrMyService, ServiceWithNewline, ServiceWithTab}

Clients == {"custom client"}

\* Header maps a caller can hand to with_metadata: a new name, a name of a fixed
\* header, a name with two values beside the Authorization name.
MetadataMaps ==
    {HeaderInsert(EmptyHeaderMap, "x-p-meta-team", ValueTeamA),
     HeaderInsert(EmptyHeaderMap, "x-p-stream", ValueOther),
     HeaderInsert(HeaderAppend(HeaderInsert(EmptyHeaderMap, "x-p-meta-team", ValueTeamA),
                               "x-p-meta-team", ValueTeamB),
                  "authorization", ValueBearer)}

\* Header maps a caller can hand to with_tags: a new name, a name the metadata use,
\* a name of a fixed header beside a name with two values.
TagMaps ==
    {HeaderInsert(EmptyHeaderMap, "x-p-tag-env", ValueEnv),
     HeaderInsert(EmptyHeaderMap, "x-p-meta-team", ValueOther),
     HeaderAppend(HeaderInsert(HeaderInsert(EmptyHeaderMap, "content-type", ValueTextPlain),
                               "x-p-tag-env", ValueEnv),
                  "x-p-tag-env", ValueTeamB)}

\* ---------------------------------------------------------------- SpecBuild

InitBuild ==
    /\ \E env_host \in {None, Some(HostLogs)}, env_port \in {None, Some(Port443)} :
           builder = DefaultBuilder(env_host, env_port)
    /\ built = NotBuilt
    /\ spans = <<>>
    /\ trace_messages = <<>>
    /\ flattened = FALSE
    /\ exporter = Idle
    /\ constructed = Idle
    /\ calls = <<>>
    /\ network = <<>>

BuilderFrame == UNCHANGED <<spans, trace_messages, flattened, built, exporter, constructed, calls, network>>

with_tls ==
    /\ built = NotBuilt
    /\ builder' = [builder EXCEPT !.tls_enabled = TRUE]
    /\ BuilderFrame

with_host(host) ==
    /\ built = NotBuilt
    /\ builder' = [builder EXCEPT !.host = host]
    /\ BuilderFrame

with_port(port) ==
    /\ built = NotBuilt
    /\ builder' = [builder EXCEPT !.port = port]
    /\ BuilderFrame

with_api_version(api_version) ==
    /\ built = NotBuilt
    /\ builder' = [builder EXCEPT !.api_version = api_version]
    /\ BuilderFrame

with_service_name(service_name) ==
    /\ built = NotBuilt
    /\ builder' = [builder EXCEPT !.service_name = service_name]
    /\ BuilderFrame

with_metadata(metadata) ==
    /\ built = NotBuilt
    /\ builder' = [builder EXCEPT !.metadata = Some(metadata)]
    /\ BuilderFrame

with_tags(tags) ==
    /\ built = NotBuilt
    /\ builder' = [builder EXCEPT !.tags = Some(tags)]
    /\ BuilderFrame

with_client(client) ==
    /\ built = NotBuilt
    /\ builder' = [builder EXCEPT !.client = Some(client)]
    /\ BuilderFrame

with_username(username) ==
    /\ built = NotBuilt
    /\ builder' = [builder EXCEPT !.username = username]
    /\ BuilderFrame

with_password(password) ==
    /\ built = NotBuilt
    /\ builder' = [builder EXCEPT !.password = password]
    /\ BuilderFrame

\* build_exporter consumes the builder; its fields are kept as the inputs of the
\* build for the properties below.
BuildExporter ==
    /\ built = NotBuilt
    /\ built' = build_exporter(builder)
    /\ UNCHANGED <<builder, spans, trace_messages, flattened, exporter, constructed, calls, network>>

NextBuild ==
    \/ with_tls
    \/ \E host \in Hosts : with_host(host)
    \/ \E port \in Ports : with_port(port)
    \/ with_api_version("V1")
    \/ \E service_name \in ServiceNames : with_service_name(service_name)
    \/ \E metadata \in MetadataMaps : with_metadata(metadata)
    \/ \E tags \in TagMaps : with_tags(tags)
    \/ \E client \in Clients : with_client(client)
    \/ \E username \in Usernames : with_username(username)
    \/ \E password \in Passwords : with_password(password)
    \/ BuildExporter

SpecBuild == InitBuild /\ [][NextBuild]_vars

\* ---------------------------------------------------------------- serde_json

RECURSIVE JsonJoin(_)
\* The items of an array or the members of an object, separated by commas.
JsonJoin(items) ==
    IF items = <<>> THEN ""
    ELSE IF Len(items) = 1 THEN items[1]
    ELSE items[1] \o "," \o JsonJoin(Tail(items))

\* A string (none of the strings drawn needs an escape).
JsonString(s) == "\"" \o s \o "\""

JsonStringArray(strings) == "[" \o JsonJoin([i \in 1..Len(strings) |-> JsonString(strings[i])]) \o "]"

\* Option<String>: null for None.
JsonOptionString(option) == IF option.some THEN JsonString(option.v) ELSE "null"

\* #[derive(Serialize)] for TraceMessage: the fields in declaration order.
JsonTraceMessage(m) ==
    "{" \o JsonJoin(<<
        "\"resource_attributes\":" \o JsonStringArray(m.resource_attributes),
        "\"span_name\":" \o JsonString(m.span_name),
        "\"attributes\":" \o JsonStringArray(m.attributes),
        "\"start_time\":" \o JsonString(m.start_time),
        "\"end_time\":" \o JsonString(m.end_time),
        "\"parent_span_id\":" \o JsonString(m.parent_span_id),
        "\"span_id\":" \o JsonString(m.span_id),
        "\"trace_id\":" \o JsonString(m.trace_id),
        "\"event_message\":" \o JsonOptionString(m.event_message),
        "\"event_timestamp\":" \o JsonOptionString(m.event_timestamp)>>) \o "}"

\* serde_json::to_vec of a Vec<TraceMessage>: one JSON array.
JsonBody(data) == "[" \o JsonJoin([i \in 1..Len(data) |-> JsonTraceMessage(data[i])]) \o "]"

\* ---------------------------------------------------------------- export and send_request

\* Whether a URL has a host: reqwest refuses to build a request for one that has none.
UrlHasHost(url) ==
    LET rest    == SubSeq(url, FirstIn(url, {58}) + 3, Len(url))
        authEnd == FirstIn(rest, AuthorityEnd)
    IN  authEnd # 1 /\ rest # <<>>

\* client.request(Method::POST, url).headers(headers.clone()).json(&data).build():
\* the headers are set on the request, json() adds Content-Type: application/json
\* when the headers name none, and the body is the serialised data.
RequestBuild(url, headers, data) ==
    IF ~UrlHasHost(url) THEN Err("builder error")
    ELSE Ok([method  |-> "POST",
             url     |-> url,
             headers |-> IF HeaderIndex(headers, "content-type") = 0
                         THEN HeaderInsert(headers, "content-type", StrApplicationJson)
                         ELSE headers,
             body    |-> JsonBody(data)])

\* An export that moves the headers out of the exporter instead of cloning them.
ExportCallTakingHeaders(self, batch) ==
    [exporter |-> [self EXCEPT !.request_headers = EmptyHeaderMap],
     future   |-> [batch   |-> batch,
                   client  |-> self.client,
                   url     |-> self.request_url,
                   headers |-> self.request_headers,
                   data    |-> into_trace_messages(batch),
                   pc      |-> "created",
                   result  |-> None]]

\* ParseableExporter::export: the batch is flattened at once, and the future owns
\* clones of the client, the URL and the headers, and the flattened records.
ExportCall(self, batch) ==
    [exporter |-> self,
     future   |-> [batch   |-> batch,
                   client  |-> self.client,
                   url     |-> self.request_url,
                   headers |-> self.request_headers,
                   data    |-> into_trace_messages(batch),
                   pc      |-> "created",
                   result  |-> None]]

\* Futures that read the records from one buffer the exporter keeps: a new export
\* overwrites what the futures not yet polled will send.
FuturesSharingBuffer(futures, future) ==
    Append([i \in 1..Len(futures) |->
                IF futures[i].pc = "created" THEN [futures[i] EXCEPT !.data = future.data]
                ELSE futures[i]],
           future)

\* The futures alive after an export: the new one beside the others, which it does
\* not touch.
FuturesAfterExport(futures, future) == Append(futures, future)

\* A first poll that sends nothing for an empty batch.
SendRequestPollSkippingEmpty(i, call, net) ==
    LET req == RequestBuild(call.url, call.headers, call.data)
    IN  IF ~req.ok
        THEN [call |-> [call EXCEPT !.pc = "done", !.result = Some(Err(req.err))], network |-> net]
        ELSE IF call.data = <<>>
        THEN [call |-> [call EXCEPT !.pc = "done", !.result = Some(Ok("()"))], network |-> net]
        ELSE [call |-> [call EXCEPT !.pc = "sent"],
              network |-> Append(net, [kind |-> "request", call |-> i, request |-> req.v])]

\* The first poll of send_request: the request is built (an error ends the call) and
\* handed to client.execute, whose completion the future then awaits.
SendRequestPoll(i, call, net) ==
    LET req == RequestBuild(call.url, call.headers, call.data)
    IN  IF ~req.ok
        THEN [call |-> [call EXCEPT !.pc = "done", !.result = Some(Err(req.err))], network |-> net]
        ELSE [call |-> [call EXCEPT !.pc = "sent"],
              network |-> Append(net, [kind |-> "request", call |-> i, request |-> req.v])]

\* What client.execute(req).await yields: a transport error, or a response with its
\* status.
TransportError == [transport |-> FALSE]

Response(status) == [transport |-> TRUE, status |-> status]

\* A result that refuses the responses whose status is not a success.
SendRequestResultCheckingStatus(outcome) ==
    IF ~outcome.transport THEN Err("transport error")
    ELSE IF outcome.status >= 400 THEN Err("status error")
    ELSE Ok("()")

\* The result of send_request once execute has completed: the transport error, or
\* Ok(()) for a response, whose status is not read.
SendRequestResult(outcome) ==
    IF ~outcome.transport THEN Err("transport error") ELSE Ok("()")

\* ---------------------------------------------------------------- Spec: export calls on a built exporter

\* The most export calls made on the exporter.
MaxCalls == 2

\* The builders the exporter is built from: the default one, and one with TLS, a
\* host, a port and metadata.
ExportBuilders ==
    {DefaultBuilder(None, None),
     [DefaultBuilder(Some(HostLogs), Some(Port443)) EXCEPT
         !.tls_enabled = TRUE,
         !.metadata = Some(HeaderInsert(EmptyHeaderMap, "x-p-meta-team", ValueTeamA))]}

\* The batches handed to export: the empty one, and two spans, one with events.
ExportBatches == {<<>>, <<SpanA(<<EventA, EventB>>), SpanB(<<>>)>>}

\* The outcomes of a send: a transport error, or a response of status 200, 404 or 500.
Outcomes == {TransportError, Response(200), Response(404), Response(500)}

Init ==
    /\ \E b \in ExportBuilders :
           /\ build_exporter(b).ok
           /\ exporter = build_exporter(b).v
           /\ constructed = build_exporter(b).v
    /\ calls = <<>>
    /\ network = <<>>
    /\ spans = <<>>
    /\ trace_messages = <<>>
    /\ flattened = FALSE
    /\ builder = Idle
    /\ built = NotBuilt

\* export(batch): the call returns a future; nothing is sent before it is polled.
Export(batch) ==
    /\ Len(calls) < MaxCalls
    /\ exporter' = ExportCall(exporter, batch).exporter
    /\ calls' = FuturesAfterExport(calls, ExportCall(exporter, batch).future)
    /\ UNCHANGED <<network, constructed, spans, trace_messages, flattened, builder, built>>

\* The first poll of a call's future.
Poll(i) ==
    /\ calls[i].pc = "created"
    /\ calls' = [calls EXCEPT ![i] = SendRequestPoll(i, calls[i], network).call]
    /\ network' = SendRequestPoll(i, calls[i], network).network
    /\ UNCHANGED <<exporter, constructed, spans, trace_messages, flattened, builder, built>>

\* client.execute completes for a call, with a transport error or a response.
Complete(i, outcome) ==
    /\ calls[i].pc = "sent"
    /\ calls' = [calls EXCEPT ![i].pc = "done", ![i].result = Some(SendRequestResult(outcome))]
    /\ network' = Append(network, [kind |-> "outcome", call |-> i, outcome |-> outcome])
    /\ UNCHANGED <<exporter, constructed, spans, trace_messages, flattened, builder, built>>

Next ==
    \/ \E batch \in ExportBatches : Export(batch)
    \/ \E i \in 1..Len(calls) : Poll(i)
    \/ \E i \in 1..Len(calls), outcome \in Outcomes : Complete(i, outcome)

Spec == Init /\ [][Next]_vars

\* ---------------------------------------------------------------- claims about the flattener

\* The number of records a span contributes: one per event, one if it has none.
RecordCount(span) == IF span.events = <<>> THEN 1 ELSE Len(span.events)

RECURSIVE Offset(_, _)
\* The number of records the spans before the s-th contribute.
Offset(batch, s) == IF s <= 1 THEN 0 ELSE Offset(batch, s - 1) + RecordCount(batch[s - 1])

TotalRecords(batch) == Offset(batch, Len(batch) + 1)

\* The records of out that carry the identity (trace id, span id) of span.
RecordsWithIdentity(out, span) ==
    {p \in 1..Len(out) : /\ out[p].trace_id = TraceIdToString(span.trace_id)
                         /\ out[p].span_id = SpanIdToString(span.span_id)}

\* The number of records the batch's spans of that identity contribute together.
RECURSIVE IdentityCount(_, _, _)
IdentityCount(batch, span, s) ==
    IF s > Len(batch) THEN 0
    ELSE IdentityCount(batch, span, s + 1)
         + (IF batch[s].trace_id = span.trace_id /\ batch[s].span_id = span.span_id
            THEN RecordCount(batch[s]) ELSE 0)

\* C1: a span with N > 0 events yields exactly N records; the i-th is the span-level
\* record with event_message and event_timestamp set from the i-th event and with
\* attributes equal to the span's attributes followed by the i-th event's own only.
C1_EventRecords ==
    flattened =>
        \A s \in 1..Len(spans) :
            LET span == spans[s]
                N    == Len(span.events)
                off  == Offset(spans, s)
            IN  N > 0 =>
                    /\ off + N <= Len(trace_messages)
                    /\ Cardinality(RecordsWithIdentity(trace_messages, span))
                           = IdentityCount(spans, span, 1)
                    /\ \A i \in 1..N :
                           LET r == trace_messages[off + i]
                               e == span.events[i]
                           IN  /\ r.trace_id = TraceIdToString(span.trace_id)
                               /\ r.span_id = SpanIdToString(span.span_id)
                               /\ r.parent_span_id = SpanIdToString(span.parent_span_id)
                               /\ r.span_name = span.name
                               /\ r.start_time = to_timestamp_string(span.start_time)
                               /\ r.end_time = to_timestamp_string(span.end_time)
                               /\ r.resource_attributes = extract_attributes(span.resource)
                               /\ r.event_message = Some(e.name)
                               /\ r.event_timestamp = Some(to_timestamp_string(e.timestamp))
                               /\ r.attributes = extract_attributes(span.attributes)
                                                     \o extract_attributes(e.attributes)

\* A span with attributes and two events of different attributes has been flattened.
C1_Witness ==
    /\ flattened
    /\ \E s \in 1..Len(spans) :
           /\ spans[s].attributes # <<>>
           /\ Len(spans[s].events) = 2
           /\ spans[s].events[1].attributes # spans[s].events[2].attributes

\* C2: a span with zero events yields exactly one record, whose event_message and
\* event_timestamp are both None.
C2_NoEventRecord ==
    flattened =>
        \A s \in 1..Len(spans) :
            LET span == spans[s]
                off  == Offset(spans, s)
            IN  span.events = <<>> =>
                    /\ off + 1 <= Len(trace_messages)
                    /\ Cardinality(RecordsWithIdentity(trace_messages, span))
                           = IdentityCount(spans, span, 1)
                    /\ trace_messages[off + 1].trace_id = TraceIdToString(span.trace_id)
                    /\ trace_messages[off + 1].span_id = SpanIdToString(span.span_id)
                    /\ trace_messages[off + 1].event_message = None
                    /\ trace_messages[off + 1].event_timestamp = None

\* A span without events has been flattened after a span with events.
C2_Witness ==
    /\ flattened
    /\ Len(spans) = 2
    /\ spans[1].events # <<>>
    /\ spans[2].events = <<>>

\* C3: the output is the concatenation, in input span order, of each span's records,
\* in the span's event order, whatever the timestamps and attributes are.
C3_OrderPreserved ==
    flattened =>
        /\ Len(trace_messages) = TotalRecords(spans)
        /\ \A s \in 1..Len(spans) :
               \A i \in 1..RecordCount(spans[s]) :
                   LET r == trace_messages[Offset(spans, s) + i]
                   IN  /\ r.trace_id = TraceIdToString(spans[s].trace_id)
                       /\ r.span_id = SpanIdToString(spans[s].span_id)
                       /\ r.span_name = spans[s].name
                       /\ IF spans[s].events = <<>>
                          THEN r.event_message = None /\ r.event_timestamp = None
                          ELSE /\ r.event_message = Some(spans[s].events[i].name)
                               /\ r.event_timestamp
                                      = Some(to_timestamp_string(spans[s].events[i].timestamp))

\* A batch whose first span starts after its second, and whose first span's events
\* are not in timestamp order, has been flattened.
C3_Witness ==
    /\ flattened
    /\ Len(spans) = 2
    /\ spans[1].start_time.secs > spans[2].start_time.secs
    /\ Len(spans[1].events) = 2
    /\ spans[1].events[1].timestamp.secs > spans[1].events[2].timestamp.secs

\* ---------------------------------------------------------------- claims about the builder

\* A byte that HeaderValue refuses: a control character other than tab, or DEL.
IllegalInHeaderValue(s) == \E i \in 1..Len(s) : (s[i] < 32 /\ s[i] # 9) \/ s[i] = 127

Range(seq) == {seq[i] : i \in 1..Len(seq)}

OptionalMap(option) == IF option.some THEN option.v ELSE EmptyHeaderMap

\* The three headers the build inserts first.
FixedHeaders(b) ==
    <<[name |-> "authorization",
       values |-> <<StrBasic \o Base64Encode(b.username \o StrColon \o b.password)>>],
      [name |-> "content-type", values |-> <<StrApplicationJson>>],
      [name |-> "x-p-stream", values |-> <<b.service_name>>]>>

AllHeaderNames(b) ==
    HeaderNames(FixedHeaders(b)) \cup HeaderNames(OptionalMap(b.metadata))
        \cup HeaderNames(OptionalMap(b.tags))

\* C5 as stated: the metadata and tag headers are merged in additively, so every value
\* of the three fixed headers, of the metadata and of the tags is in the header set.
C5_AllValuesRetained ==
    (built # NotBuilt /\ built.ok) =>
        \A name \in AllHeaderNames(builder) :
            Range(HeaderValues(FixedHeaders(builder), name))
                \cup Range(HeaderValues(OptionalMap(builder.metadata), name))
                \cup Range(HeaderValues(OptionalMap(builder.tags), name))
            \subseteq Range(HeaderValues(built.v.request_headers, name))

\* C5, amended: the header set holds the three fixed names and every metadata and tag
\* name; a name keeps the values of the last set that has it (tags, else metadata,
\* else the fixed header), the values of the earlier sets for that name being replaced.
C5_LaterSetReplaces ==
    (built # NotBuilt /\ built.ok) =>
        /\ HeaderNames(built.v.request_headers) = AllHeaderNames(builder)
        /\ {"authorization", "content-type", "x-p-stream"} \subseteq HeaderNames(built.v.request_headers)
        /\ \A name \in AllHeaderNames(builder) :
               HeaderValues(built.v.request_headers, name) =
                   IF name \in HeaderNames(OptionalMap(builder.tags))
                   THEN HeaderValues(builder.tags.v, name)
                   ELSE IF name \in HeaderNames(OptionalMap(builder.metadata))
                   THEN HeaderValues(builder.metadata.v, name)
                   ELSE HeaderValues(FixedHeaders(builder), name)

\* An exporter was built from metadata naming a fixed header and tags naming a
\* metadata header.
C5_Witness ==
    /\ built # NotBuilt
    /\ built.ok
    /\ builder.metadata.some
    /\ builder.tags.some
    /\ HeaderNames(builder.metadata.v) \cap HeaderNames(FixedHeaders(builder)) # {}
    /\ HeaderNames(builder.tags.v) \cap HeaderNames(builder.metadata.v) # {}

\* C6 as stated: an illegal character in the service name, the username or the
\* password makes the build fail, and no exporter is constructed.
C6_AnyIllegalFails ==
    (/\ built # NotBuilt
     /\ \/ IllegalInHeaderValue(builder.service_name)
        \/ IllegalInHeaderValue(builder.username)
        \/ IllegalInHeaderValue(builder.password))
    => ~built.ok

\* C6, amended: an illegal character in the service name makes the build fail, with
\* the invalid-header-value error when the endpoint is well formed; the username and
\* the password are Base64-encoded into a legal Authorization value, so with a legal
\* service name and a well-formed endpoint the build succeeds whatever they hold.
C6_ServiceNameValidated ==
    built # NotBuilt =>
        /\ IllegalInHeaderValue(builder.service_name) =>
               /\ ~built.ok
               /\ BuildEndpoint(builder).ok => built.err = "InvalidHeaderValue"
        /\ (~IllegalInHeaderValue(builder.service_name) /\ BuildEndpoint(builder).ok) =>
               /\ built.ok
               /\ HeaderValues(built.v.request_headers, "x-p-stream") # <<>>
               /\ \A v \in Range(HeaderValues(built.v.request_headers, "x-p-stream"))
                           \cup Range(HeaderValues(built.v.request_headers, "authorization")) :
                      ~IllegalInHeaderValue(v)

\* A build was refused for its service name although its username holds an illegal
\* character too.
C6_Witness ==
    /\ built # NotBuilt
    /\ ~built.ok
    /\ built.err = "InvalidHeaderValue"
    /\ IllegalInHeaderValue(builder.service_name)
    /\ IllegalInHeaderValue(builder.username)

\* "/api/v1/ingest"
StrApiV1Ingest == <<47, 97, 112, 105, 47, 118, 49, 47, 105, 110, 103, 101, 115, 116>>

SchemeOf(b) == IF b.tls_enabled THEN StrHttps ELSE StrHttp

RECURSIVE DecimalValue(_)
\* The number a string of digits writes.
DecimalValue(digits) ==
    IF digits = <<>> THEN 0
    ELSE DecimalValue(SubSeq(digits, 1, Len(digits) - 1)) * 10 + (digits[Len(digits)] - 48)

\* C7 as stated: the request URL of a built exporter is exactly
\* scheme://host:port/api/v1/ingest with host and port as supplied.
C7_UrlAsSupplied ==
    (built # NotBuilt /\ built.ok) =>
        built.v.request_url =
            SchemeOf(builder) \o StrSchemeSep \o builder.host \o StrColon \o builder.port
                \o StrApiV1Ingest

\* C7, amended: the request URL of a built exporter is the parsed form of
\* scheme://host:port/api/v1/ingest, a function of (tls, host, port): the host in
\* lower case, the port in decimal without leading zeros, and ":port" left out when
\* the port is empty or the scheme's default (443 for https, 80 for http); when the
\* composed string is no well-formed URL the build fails with the parser's error.
C7_UrlNormalised ==
    built # NotBuilt =>
        /\ built.ok =>
               built.v.request_url =
                   SchemeOf(builder) \o StrSchemeSep
                       \o [i \in 1..Len(builder.host) |-> AsciiLower(builder.host[i])]
                       \o (IF \/ builder.port = <<>>
                              \/ DecimalValue(builder.port) = (IF builder.tls_enabled THEN 443 ELSE 80)
                           THEN <<>>
                           ELSE StrColon \o DecimalBytes(DecimalValue(builder.port)))
                       \o StrApiV1Ingest
        /\ ~BuildEndpoint(builder).ok =>
               /\ ~built.ok
               /\ built.err \in {"EmptyHost", "InvalidDomainCharacter", "InvalidPort", "InvalidIpv4Address"}

\* An exporter was built with TLS for logs.example.com and port 443.
C7_Witness ==
    /\ built # NotBuilt
    /\ built.ok
    /\ builder.tls_enabled
    /\ builder.host = HostLogs
    /\ builder.port = Port443

\* ---------------------------------------------------------------- claims about export

\* The records and the request body of each batch handed to export.
RecordsOfBatch == [batch \in ExportBatches |-> into_trace_messages(batch)]

BodyOfBatch == [batch \in ExportBatches |-> JsonBody(into_trace_messages(batch))]

\* The positions in the network log of the requests a call has issued, and of the
\* outcomes it has received.
RequestsOf(i) == {n \in 1..Len(network) : network[n].kind = "request" /\ network[n].call = i}

OutcomesOf(i) == {n \in 1..Len(network) : network[n].kind = "outcome" /\ network[n].call = i}

\* C4: a call of export issues exactly one HTTP POST, no more at any time and one
\* once its future has been polled, whose body is the JSON array of the records
\* flattened from the call's batch: "[]" for the empty batch.
C4_ExactlyOnePost ==
    \A i \in 1..Len(calls) :
        /\ Cardinality(RequestsOf(i)) <= 1
        /\ calls[i].pc = "created" => RequestsOf(i) = {}
        /\ calls[i].pc \in {"sent", "done"} =>
               /\ Cardinality(RequestsOf(i)) = 1
               /\ \A n \in RequestsOf(i) :
                      /\ network[n].request.method = "POST"
                      /\ network[n].request.body = BodyOfBatch[calls[i].batch]
                      /\ calls[i].batch = <<>> => network[n].request.body = "[]"

\* A call with the empty batch has completed, and its one request had the body "[]".
C4_Witness ==
    \E i \in 1..Len(calls) :
        /\ calls[i].batch = <<>>
        /\ calls[i].pc = "done"
        /\ \E n \in RequestsOf(i) : network[n].request.body = "[]"

\* C8: a transport failure is returned to the caller as an error, and whatever the
\* calls and their outcomes the exporter is as constructed: every request goes to the
\* constructed URL with the constructed headers.
C8_NoSideEffects ==
    /\ exporter = constructed
    /\ \A n \in 1..Len(network) :
           /\ network[n].kind = "request" =>
                  /\ network[n].request.url = constructed.request_url
                  /\ network[n].request.headers = constructed.request_headers
           /\ (network[n].kind = "outcome" /\ ~network[n].outcome.transport) =>
                  /\ calls[network[n].call].result.some
                  /\ ~calls[network[n].call].result.v.ok

\* A request was sent after a call had failed with a transport error.
C8_Witness ==
    \E m \in 1..Len(network), n \in 1..Len(network) :
        /\ m < n
        /\ network[m].kind = "outcome"
        /\ ~network[m].outcome.transport
        /\ network[n].kind = "request"
        /\ network[n].call > network[m].call

\* C9: a call whose request was sent and answered returns Ok whatever the status of
\* the response; it returns an error exactly when the request could not be built or
\* the send failed.
C9_StatusNotInspected ==
    \A i \in 1..Len(calls) :
        calls[i].pc = "done" =>
            /\ calls[i].result.some
            /\ calls[i].result.v.ok <=>
                   /\ RequestsOf(i) # {}
                   /\ \E n \in OutcomesOf(i) : network[n].outcome.transport
            /\ ~calls[i].result.v.ok <=>
                   \/ RequestsOf(i) = {}
                   \/ \E n \in OutcomesOf(i) : ~network[n].outcome.transport

\* A call answered with status 500 has returned Ok.
C9_Witness ==
    \E i \in 1..Len(calls) :
        /\ calls[i].pc = "done"
        /\ calls[i].result.v.ok
        /\ \E n \in OutcomesOf(i) :
               network[n].outcome.transport /\ network[n].outcome.status = 500

\* C10: under every interleaving of the calls' polls and completions, a call's future
\* holds the records of its own batch and the exporter's client, URL and headers, its
\* request carries exactly those records, it has at most one request outstanding, and
\* its result is that of its own send.
C10_CallsIsolated ==
    \A i \in 1..Len(calls) :
        /\ calls[i].data = RecordsOfBatch[calls[i].batch]
        /\ calls[i].client = constructed.client
        /\ calls[i].url = constructed.request_url
        /\ calls[i].headers = constructed.request_headers
        /\ Cardinality(RequestsOf(i)) <= 1
        /\ Cardinality(OutcomesOf(i)) <= Cardinality(RequestsOf(i))
        /\ calls[i].pc = "sent" <=> (RequestsOf(i) # {} /\ OutcomesOf(i) = {})
        /\ \A n \in RequestsOf(i) :
               network[n].request.body = BodyOfBatch[calls[i].batch]
        /\ \A n \in OutcomesOf(i) :
               /\ calls[i].pc = "done"
               /\ calls[i].result.v.ok <=> network[n].outcome.transport

\* Two calls with different batches were outstanding at the same time, the second
\* sent first; one failed and the other succeeded.
C10_Witness ==
    \E i \in 1..Len(calls), j \in 1..Len(calls) :
        /\ i < j
        /\ calls[i].batch # calls[j].batch
        /\ \E rj \in RequestsOf(j), ri \in RequestsOf(i), oi \in OutcomesOf(i), oj \in OutcomesOf(j) :
               /\ rj < ri
               /\ ri < oi
               /\ oi < oj
               /\ ~network[oi].outcome.transport
               /\ network[oj].outcome.transport
        /\ ~calls[i].result.v.ok
        /\ calls[j].result.v.ok

====
